---- MODULE Spec2Model ----
(***************************************************************************)
(* Model of the chord recognition engine of clefd (src/src/clefd.c): the   *)
(* pressed-key array, add_key / remove_key, the chord canonicaliser        *)
(* send_chord_event, the dispatcher keyboard_event_handler and the run     *)
(* loop key_reader with its shutdown signal.                               *)
(*                                                                         *)
(* Spec drives the handler event by event over the whole keyboard, enough  *)
(* keys to fill the array.  LoopSpec runs key_reader from its first line   *)
(* (contexts, poll, event queue, signal, return) over a small keyboard.    *)
(*                                                                         *)
(* Strings are sequences of bytes (ASCII codes), so strcmp, strcat and the *)
(* "%s\n" format are modelled by what they do to bytes.                    *)
(***************************************************************************)
EXTENDS Integers, Sequences, FiniteSets, TLC

VARIABLES
  pressed_keys,   \* pressed_keys[0 .. num_pressed_keys-1], as a sequence
  event,          \* the event the handler last handled: [code, key_state]
  entry_len,      \* num_pressed_keys when the handler was entered
  entry_held,     \* whether the event's keycode was in the array at entry
  rendered,       \* whether the handler called send_chord_event
  chord_out,      \* the lines the handler passed to dprintf(fifo_fd, ...)
  write_failed,   \* whether dprintf returned < 0 (perror was called)
  warned,         \* whether add_key printed the capacity warning
  pc,             \* where key_reader stands
  keep_running,   \* the flag the signal handler clears
  ret,            \* key_reader's return value, -1 while it has not returned
  exit_cause,     \* why key_reader left: "none" while it runs
  taken,          \* the keyboard event taken from the queue, not yet handled
  released,       \* history: the codes whose last handled event is a release
  down,           \* history: the codes whose last handled event is a press
  dropped         \* history: whether a press was dropped for capacity

handler_vars == <<pressed_keys, event, entry_len, entry_held, rendered,
                  chord_out, write_failed, warned>>

loop_vars == <<pc, keep_running, ret, exit_cause, taken>>

vars == <<pressed_keys, event, entry_len, entry_held, rendered, chord_out,
          write_failed, warned, pc, keep_running, ret, exit_cause, taken,
          released, down, dropped>>

-----------------------------------------------------------------------------
(* Program constants *)

MAX_PRESSED_KEYS == 16

\* xkb_code = libinput key + 8
XKB_OFFSET == 8

\* char temp_name_buffer[MAX_PRESSED_KEYS][64]; xkb_keysym_get_name(.., 64)
NAME_BUF == 64

\* char chord_str[256] = {0};
CHORD_BUF == 256

SPACE == 32

NEWLINE == 10

-----------------------------------------------------------------------------
(* Bounds of the event source *)

\* evdev key codes the event source produces: 1 .. NumKeys
NumKeys == 19

-----------------------------------------------------------------------------
(* Helpers on sequences *)

Range(s) == {s[i] : i \in 1..Len(s)}

Min(a, b) == IF a < b THEN a ELSE b

-----------------------------------------------------------------------------
(* The keycode resolver (xkbcommon), for the keymap and the never-updated  *)
(* xkb_state the daemon runs with: a fixed table keycode -> keysym.        *)
(* Keycodes without an entry resolve to NoSymbol.  Two keycodes of the     *)
(* table carry the same keysym (Super_L), as keymaps allow.                *)

Keymap ==
  <<"Shift_L", "Alt_L", "Super_L", "Caps_Lock", "Num_Lock", "Scroll_Lock",
    "Control_R", "Alt_R", "Super_R", "Meta_L", "Meta_R", "Hyper_L", "Hyper_R",
    "Super_L", "Control_L", "Shift_R", "a", "b">>

xkb_state_key_get_one_sym(keycode) ==
  IF keycode - XKB_OFFSET \in DOMAIN Keymap
  THEN Keymap[keycode - XKB_OFFSET]
  ELSE "NoSymbol"

\* The keysym's name as bytes.
KeysymBytes(keysym) ==
  CASE keysym = "Shift_L"     -> <<83,104,105,102,116,95,76>>
    [] keysym = "Shift_R"     -> <<83,104,105,102,116,95,82>>
    [] keysym = "Control_L"   -> <<67,111,110,116,114,111,108,95,76>>
    [] keysym = "Control_R"   -> <<67,111,110,116,114,111,108,95,82>>
    [] keysym = "Alt_L"       -> <<65,108,116,95,76>>
    [] keysym = "Alt_R"       -> <<65,108,116,95,82>>
    [] keysym = "Super_L"     -> <<83,117,112,101,114,95,76>>
    [] keysym = "Super_R"     -> <<83,117,112,101,114,95,82>>
    [] keysym = "Meta_L"      -> <<77,101,116,97,95,76>>
    [] keysym = "Meta_R"      -> <<77,101,116,97,95,82>>
    [] keysym = "Hyper_L"     -> <<72,121,112,101,114,95,76>>
    [] keysym = "Hyper_R"     -> <<72,121,112,101,114,95,82>>
    [] keysym = "Caps_Lock"   -> <<67,97,112,115,95,76,111,99,107>>
    [] keysym = "Num_Lock"    -> <<78,117,109,95,76,111,99,107>>
    [] keysym = "Scroll_Lock" -> <<83,99,114,111,108,108,95,76,111,99,107>>
    [] keysym = "a"           -> <<97>>
    [] keysym = "b"           -> <<98>>
    [] keysym = "Shift_Lock"  -> <<83,104,105,102,116,95,76,111,99,107>>
    [] keysym = "Mode_switch" -> <<77,111,100,101,95,115,119,105,116,99,104>>
    [] keysym = "ISO_Level3_Shift" -> <<73,83,79,95,76,101,118,101,108,51,95,83,104,105,102,116>>
    [] OTHER                  -> <<78,111,83,121,109,98,111,108>>

\* xkb_keysym_get_name(keysym, buffer, 64): the name, cut to 63 bytes.
xkb_keysym_get_name(keysym) ==
  SubSeq(KeysymBytes(keysym), 1, Min(Len(KeysymBytes(keysym)), NAME_BUF - 1))

-----------------------------------------------------------------------------
(* is_modifier_keysym *)

\* is_modifier_keysym without the three lock keys among its cases.
is_modifier_keysym_no_locks(keysym) ==
  keysym \in {"Shift_L", "Shift_R", "Control_L", "Control_R", "Alt_L", "Alt_R",
              "Super_L", "Super_R", "Meta_L", "Meta_R", "Hyper_L", "Hyper_R"}

\* is_modifier_keysym with NoSymbol among the cases that return true.
is_modifier_keysym_or_nosymbol(keysym) ==
  keysym \in {"Shift_L", "Shift_R", "Control_L", "Control_R", "Alt_L", "Alt_R",
              "Super_L", "Super_R", "Meta_L", "Meta_R", "Hyper_L", "Hyper_R",
              "Caps_Lock", "Num_Lock", "Scroll_Lock", "NoSymbol"}

is_modifier_keysym(keysym) ==
  keysym \in {"Shift_L", "Shift_R", "Control_L", "Control_R", "Alt_L", "Alt_R",
              "Super_L", "Super_R", "Meta_L", "Meta_R", "Hyper_L", "Hyper_R",
              "Caps_Lock", "Num_Lock", "Scroll_Lock"}

-----------------------------------------------------------------------------
(* add_key: the new array and whether the capacity warning was printed *)

\* add_key without the capacity check.
add_key_no_capacity_check(keys, keycode) ==
  IF \E i \in 1..Len(keys) : keys[i] = keycode
  THEN [keys |-> keys, warned |-> FALSE]
  ELSE [keys |-> Append(keys, keycode), warned |-> FALSE]

\* add_key moving a keycode that is already held to the end of the array.
add_key_move_to_end(keys, keycode) ==
  IF Len(keys) >= MAX_PRESSED_KEYS
  THEN [keys |-> keys, warned |-> TRUE]
  ELSE [keys |-> Append(SelectSeq(keys, LAMBDA k : k # keycode), keycode),
        warned |-> FALSE]

\* add_key storing the new keycode in front of the others.
add_key_insert_front(keys, keycode) ==
  IF Len(keys) >= MAX_PRESSED_KEYS
  THEN [keys |-> keys, warned |-> TRUE]
  ELSE IF \E i \in 1..Len(keys) : keys[i] = keycode
       THEN [keys |-> keys, warned |-> FALSE]
       ELSE [keys |-> <<keycode>> \o keys, warned |-> FALSE]

\* add_key without the duplicate scan.
add_key_no_scan(keys, keycode) ==
  IF Len(keys) >= MAX_PRESSED_KEYS
  THEN [keys |-> keys, warned |-> TRUE]
  ELSE [keys |-> Append(keys, keycode), warned |-> FALSE]

add_key(keys, keycode) ==
  IF Len(keys) >= MAX_PRESSED_KEYS
  THEN [keys |-> keys, warned |-> TRUE]
  ELSE IF \E i \in 1..Len(keys) : keys[i] = keycode
       THEN [keys |-> keys, warned |-> FALSE]
       ELSE [keys |-> Append(keys, keycode), warned |-> FALSE]

-----------------------------------------------------------------------------
(* remove_key *)

\* The first index holding keycode, or 0 (the code's found_idx == -1).
found_idx(keys, keycode) ==
  IF \E i \in 1..Len(keys) : keys[i] = keycode
  THEN CHOOSE i \in 1..Len(keys) :
         /\ keys[i] = keycode
         /\ \A j \in 1..(i - 1) : keys[j] # keycode
  ELSE 0

\* remove_key filling the gap with the last entry instead of shifting.
remove_key_swap_last(keys, keycode) ==
  IF found_idx(keys, keycode) = 0
  THEN keys
  ELSE [i \in 1..(Len(keys) - 1) |->
          IF i = found_idx(keys, keycode) THEN keys[Len(keys)] ELSE keys[i]]

\* remove_key without the found_idx == -1 return: the shift loop starts at
\* index -1 and the count is decremented although nothing was found.
remove_key_no_found_check(keys, keycode) ==
  IF found_idx(keys, keycode) = 0
  THEN SubSeq(keys, 1, Len(keys) - 1)
  ELSE [i \in 1..(Len(keys) - 1) |->
          IF i < found_idx(keys, keycode) THEN keys[i] ELSE keys[i + 1]]

\* remove_key shifting the entries but leaving the count as it is: the
\* array keeps its length and still holds the keycode.
remove_key_count_kept(keys, keycode) == keys

remove_key(keys, keycode) ==
  IF found_idx(keys, keycode) = 0
  THEN keys
  ELSE [i \in 1..(Len(keys) - 1) |->
          IF i < found_idx(keys, keycode) THEN keys[i] ELSE keys[i + 1]]

-----------------------------------------------------------------------------
(* compare_strings (strcmp on bytes) and qsort *)

RECURSIVE strcmp(_, _)
strcmp(a, b) ==
  IF a = <<>> /\ b = <<>> THEN 0
  ELSE IF a = <<>> THEN -1
  ELSE IF b = <<>> THEN 1
  ELSE IF Head(a) < Head(b) THEN -1
  ELSE IF Head(a) > Head(b) THEN 1
  ELSE strcmp(Tail(a), Tail(b))

\* compare_strings with its arguments exchanged (descending order).
compare_strings_reversed(a, b) == strcmp(b, a)

compare_strings(a, b) == strcmp(a, b)

\* Insert name into an ascending sequence of names.
RECURSIVE SortInsert(_, _)
SortInsert(sorted, name) ==
  IF sorted = <<>> THEN <<name>>
  ELSE IF compare_strings(name, Head(sorted)) < 0 THEN <<name>> \o sorted
  ELSE <<Head(sorted)>> \o SortInsert(Tail(sorted), name)

\* The sort left out: the names stay in array order.
qsort_left_out(names) == names

\* qsort(names, n, sizeof(char *), compare_strings): names in ascending order.
\* Names that compare equal are equal byte strings, so the result is unique.
RECURSIVE qsort(_)
qsort(names) ==
  IF names = <<>> THEN <<>>
  ELSE SortInsert(qsort(SubSeq(names, 1, Len(names) - 1)), names[Len(names)])

-----------------------------------------------------------------------------
(* send_chord_event *)

\* The partition loop: the names of the keys classified one way, in array order.
RECURSIVE PartitionNames(_, _)
PartitionNames(keys, wantModifier) ==
  IF keys = <<>> THEN <<>>
  ELSE LET keysym == xkb_state_key_get_one_sym(Head(keys))
           rest   == PartitionNames(Tail(keys), wantModifier)
       IN IF is_modifier_keysym(keysym) = wantModifier
          THEN <<xkb_keysym_get_name(keysym)>> \o rest
          ELSE rest

modifier_names(keys) == PartitionNames(keys, TRUE)

key_names(keys) == PartitionNames(keys, FALSE)

\* strcat(chord_str, name); strcat(chord_str, " ") for each sorted modifier.
RECURSIVE strcat_modifiers(_)
strcat_modifiers(names) ==
  IF names = <<>> THEN <<>>
  ELSE Head(names) \o <<SPACE>> \o strcat_modifiers(Tail(names))

\* chord_str once the non-modifier key is appended.
chord_str(keys) ==
  strcat_modifiers(qsort(modifier_names(keys))) \o key_names(keys)[1]

\* send_chord_event rejecting only the snapshots without a non-modifier key.
send_chord_event_any_key(keys) ==
  IF Len(key_names(keys)) < 1
  THEN <<>>
  ELSE <<chord_str(keys) \o <<NEWLINE>>>>

\* The lines send_chord_event hands to dprintf(fifo_fd, "%s\n", chord_str).
send_chord_event(keys) ==
  IF Len(key_names(keys)) # 1
  THEN <<>>
  ELSE <<chord_str(keys) \o <<NEWLINE>>>>

-----------------------------------------------------------------------------
(* The event source.  Free keys are pressed and released in any order,     *)
(* held or not.  The other keys ("fillers") are held as a stack in code    *)
(* order: events come for the highest held filler (repeated press,         *)
(* release) and for the lowest filler not held (release while not held;    *)
(* press, as long as no free key is held).                                 *)

FreeCodes == {15, 16, 17, 18, 19}

Codes == 1..NumKeys

FillerCodes == Codes \ FreeCodes

Held(keys, code) == code + XKB_OFFSET \in Range(keys)

SourceOffers(keys, code, key_state) ==
  \/ code \in FreeCodes
  \/ /\ \A c \in FillerCodes : c < code => Held(keys, c)
     /\ \A c \in FillerCodes : c > code => ~Held(keys, c)
     /\ \/ Held(keys, code)
        \/ key_state = "released"
        \/ \A c \in FreeCodes : ~Held(keys, c)

-----------------------------------------------------------------------------
(* keyboard_event_handler *)

\* The pressed branch calling send_chord_event for every pressed key.
handle_pressed_render_always(keys, xkb_code) ==
  LET added == add_key(keys, xkb_code)
  IN [keys      |-> added.keys,
      warned    |-> added.warned,
      rendered  |-> TRUE,
      chord_out |-> send_chord_event(added.keys)]

\* The pressed branch rendering only when the key was not held before.
handle_pressed_suppress_repeat(keys, xkb_code) ==
  LET added  == add_key(keys, xkb_code)
      keysym == xkb_state_key_get_one_sym(xkb_code)
      render == ~is_modifier_keysym(keysym) /\ xkb_code \notin Range(keys)
  IN [keys      |-> added.keys,
      warned    |-> added.warned,
      rendered  |-> render,
      chord_out |-> IF render THEN send_chord_event(added.keys) ELSE <<>>]

\* The branch for LIBINPUT_KEY_STATE_PRESSED: add_key, then send_chord_event
\* if the pressed key's keysym is not a modifier.
handle_pressed(keys, xkb_code) ==
  LET added  == add_key(keys, xkb_code)
      keysym == xkb_state_key_get_one_sym(xkb_code)
  IN [keys      |-> added.keys,
      warned    |-> added.warned,
      rendered  |-> ~is_modifier_keysym(keysym),
      chord_out |-> IF ~is_modifier_keysym(keysym)
                    THEN send_chord_event(added.keys)
                    ELSE <<>>]

\* The branch for LIBINPUT_KEY_STATE_RELEASED: remove_key only.
handle_released(keys, xkb_code) ==
  [keys      |-> remove_key(keys, xkb_code),
   warned    |-> FALSE,
   rendered  |-> FALSE,
   chord_out |-> <<>>]

\* The write repeated once after a failure.
dprintf_fifo_retry(lines, dprintf_ok) ==
  [lines  |-> IF lines # <<>> /\ ~dprintf_ok THEN lines \o lines ELSE lines,
   failed |-> lines # <<>> /\ ~dprintf_ok]

\* if (dprintf(fifo_fd, "%s\n", chord_str) < 0) perror(...): the lines handed
\* to the FIFO and whether the failure was reported.  One call, no retry.
dprintf_fifo(lines, dprintf_ok) ==
  [lines  |-> lines,
   failed |-> lines # <<>> /\ ~dprintf_ok]

keyboard_event_handler(code, key_state) ==
  \E result \in {IF key_state = "pressed"
                 THEN handle_pressed(pressed_keys, code + XKB_OFFSET)
                 ELSE handle_released(pressed_keys, code + XKB_OFFSET)} :
     /\ event' = [code |-> code, key_state |-> key_state]
     /\ entry_len' = Len(pressed_keys)
     /\ entry_held' = (code + XKB_OFFSET \in Range(pressed_keys))
     /\ pressed_keys' = result.keys
     /\ warned' = result.warned
     /\ rendered' = result.rendered
     \* dprintf(fifo_fd, ...) < 0: the write may fail whenever it is made
     /\ \E dprintf_ok \in (IF result.chord_out = <<>> THEN {TRUE} ELSE BOOLEAN) :
          /\ chord_out' = dprintf_fifo(result.chord_out, dprintf_ok).lines
          /\ write_failed' = dprintf_fifo(result.chord_out, dprintf_ok).failed

\* One keyboard event delivered and handled.
KeyEvent ==
  \E code \in Codes, key_state \in {"pressed", "released"} :
     /\ SourceOffers(pressed_keys, code, key_state)
     /\ keyboard_event_handler(code, key_state)
     /\ UNCHANGED <<loop_vars, released, down, dropped>>

\* One keyboard event delivered and handled, with the history of presses
\* kept: which keys have a press as their last event, and whether add_key
\* has left a pressed key out of the full array.
TrackedKeyEvent ==
  \E code \in Codes, key_state \in {"pressed", "released"} :
     /\ SourceOffers(pressed_keys, code, key_state)
     /\ keyboard_event_handler(code, key_state)
     /\ down' = IF key_state = "pressed" THEN down \cup {code} ELSE down \ {code}
     /\ dropped' = (dropped \/ (key_state = "pressed" /\ ~Held(pressed_keys', code)))
     /\ UNCHANGED <<loop_vars, released>>

-----------------------------------------------------------------------------
(* key_reader and sigterm_handler *)

\* The keys of the small keyboard: Shift_L, Control_L, a and b.
LoopCodes == {1, 15, 17, 18}

NoEvent == [code |-> 0, key_state |-> "none"]

\* udev_new, libinput_udev_create_context, libinput_udev_assign_seat.
Setup ==
  /\ pc = "start"
  /\ \E outcome \in {"ok", "udev_failed", "libinput_failed"} :
        IF outcome = "ok"
        THEN /\ pc' = "loop"
             /\ UNCHANGED <<ret, exit_cause>>
        ELSE /\ pc' = "done"
             /\ ret' = 1
             /\ exit_cause' = outcome
  /\ UNCHANGED <<handler_vars, keep_running, taken, released, down, dropped>>

\* while (keep_running): into poll, or past the loop to return 0.
LoopCheck ==
  /\ pc = "loop"
  /\ IF keep_running = 1
     THEN /\ pc' = "poll_call"
          /\ UNCHANGED <<ret, exit_cause>>
     ELSE /\ pc' = "done"
          /\ ret' = 0
          /\ exit_cause' = "stopped"
  /\ UNCHANGED <<handler_vars, keep_running, taken, released, down, dropped>>

\* poll(&pfd, 1, -1) is entered and blocks: no timeout.
PollEnter ==
  /\ pc = "poll_call"
  /\ pc' = "polling"
  /\ UNCHANGED <<handler_vars, keep_running, ret, exit_cause, taken, released, down, dropped>>

\* poll returns with POLLIN: libinput_dispatch, then the event queue.
PollInput ==
  /\ pc = "polling"
  /\ pc' = "events"
  /\ UNCHANGED <<handler_vars, keep_running, ret, exit_cause, taken, released, down, dropped>>

\* poll fails with an errno other than EINTR, or the descriptor reports
\* POLLERR, POLLHUP or POLLNVAL: break, then the return 0 after the loop.
PollFails ==
  /\ pc = "polling"
  /\ \E outcome \in {"poll_failed", "fd_error"} :
        /\ pc' = "done"
        /\ ret' = 0
        /\ exit_cause' = outcome
  /\ UNCHANGED <<handler_vars, keep_running, taken, released, down, dropped>>

\* SIGTERM or SIGINT: sigterm_handler clears the flag.  A poll that is
\* blocked returns EINTR and the loop continues at its condition.
Signal ==
  /\ pc # "done"
  /\ keep_running' = 0
  /\ pc' = IF pc = "polling" THEN "loop" ELSE pc
  /\ UNCHANGED <<handler_vars, ret, exit_cause, taken, released, down, dropped>>

\* libinput_get_event: NULL ends the inner loop, a keyboard event is taken
\* for the handler, an event of another type is destroyed unhandled.
GetEvent ==
  /\ pc = "events"
  /\ \/ /\ pc' = "loop"
        /\ UNCHANGED taken
     \/ /\ \E code \in LoopCodes, key_state \in {"pressed", "released"} :
              /\ SourceOffers(pressed_keys, code, key_state)
              /\ taken' = [code |-> code, key_state |-> key_state]
        /\ pc' = "handling"
     \/ /\ pc' = "events"
        /\ UNCHANGED taken
  /\ UNCHANGED <<handler_vars, keep_running, ret, exit_cause, released, down, dropped>>

\* keyboard_event_handler(fifo_fd, state, event); libinput_event_destroy.
HandleTaken ==
  /\ pc = "handling"
  /\ keyboard_event_handler(taken.code, taken.key_state)
  /\ pc' = "events"
  /\ taken' = NoEvent
  /\ released' = IF taken.key_state = "released"
                 THEN released \cup {taken.code}
                 ELSE released \ {taken.code}
  /\ UNCHANGED <<keep_running, ret, exit_cause, down, dropped>>

-----------------------------------------------------------------------------

Init ==
  /\ pressed_keys = <<>>
  /\ event = NoEvent
  /\ entry_len = 0
  /\ entry_held = FALSE
  /\ rendered = FALSE
  /\ chord_out = <<>>
  /\ write_failed = FALSE
  /\ warned = FALSE
  /\ pc = "start"
  /\ keep_running = 1
  /\ ret = -1
  /\ exit_cause = "none"
  /\ taken = NoEvent
  /\ released = {}
  /\ down = {}
  /\ dropped = FALSE

Next == KeyEvent

Spec == Init /\ [][Next]_vars

\* The steps key_reader takes by itself, without waiting for input.
ReaderStep == Setup \/ LoopCheck \/ PollEnter \/ GetEvent \/ HandleTaken

LoopNext ==
  \/ Setup
  \/ LoopCheck
  \/ PollEnter
  \/ PollInput
  \/ PollFails
  \/ Signal
  \/ GetEvent
  \/ HandleTaken

LoopSpec == Init /\ [][LoopNext]_vars

HistoryNext == TrackedKeyEvent

HistorySpec == Init /\ [][HistoryNext]_vars

-----------------------------------------------------------------------------
(* Vocabulary of the properties *)

num_pressed_keys == Len(pressed_keys)

\* The keysym of the key of the last handled event.
EventKeysym == xkb_state_key_get_one_sym(event.code + XKB_OFFSET)

\* How many entries of the array are non-modifier keys.
NonModifierCount(keys) ==
  Cardinality({i \in 1..Len(keys) :
                 ~is_modifier_keysym(xkb_state_key_get_one_sym(keys[i]))})

ModifierCount(keys) == Len(keys) - NonModifierCount(keys)

IsModifierKey(keycode) == is_modifier_keysym(xkb_state_key_get_one_sym(keycode))

\* The display name the resolver gives a keycode.
DisplayName(keycode) == xkb_keysym_get_name(xkb_state_key_get_one_sym(keycode))

\* Byte-lexicographic order on strings, stated without recursion.
LexLeq(a, b) ==
  \/ /\ Len(a) <= Len(b)
     /\ \A i \in 1..Len(a) : a[i] = b[i]
  \/ \E i \in 1..Min(Len(a), Len(b)) :
        /\ a[i] < b[i]
        /\ \A j \in 1..(i - 1) : a[j] = b[j]

\* The pieces of s between the occurrences of the byte sep.
RECURSIVE SplitOn(_, _)
SplitOn(s, sep) ==
  IF \A i \in 1..Len(s) : s[i] # sep
  THEN <<s>>
  ELSE LET i == CHOOSE k \in 1..Len(s) :
                  s[k] = sep /\ \A j \in 1..(k - 1) : s[j] # sep
       IN <<SubSeq(s, 1, i - 1)>> \o SplitOn(SubSeq(s, i + 1, Len(s)), sep)

\* How often x occurs in the sequence s.
Occurrences(s, x) == Cardinality({i \in 1..Len(s) : s[i] = x})

\* The elements of a set of integers as an ascending sequence.
RECURSIVE Ascending(_)
Ascending(S) ==
  IF S = {} THEN <<>>
  ELSE LET m == CHOOSE x \in S : \A y \in S : x <= y
       IN <<m>> \o Ascending(S \ {m})

\* keys with the entries at i and i + 1 exchanged.
SwapAt(keys, i) ==
  [k \in 1..Len(keys) |->
     IF k = i THEN keys[i + 1] ELSE IF k = i + 1 THEN keys[i] ELSE keys[k]]

\* The names on an emitted line: the line without its last byte, split on spaces.
LineTokens(line) == SplitOn(SubSeq(line, 1, Len(line) - 1), SPACE)

\* keys back to front.
Reversed(keys) == [k \in 1..Len(keys) |-> keys[Len(keys) + 1 - k]]

-----------------------------------------------------------------------------
\* C1: after any sequence of press and release events from the empty set, the
\* pressed-key array holds between 0 and MAX_PRESSED_KEYS entries and no
\* keycode appears in it twice.
C1_BoundedNoDuplicates ==
  /\ 0 <= num_pressed_keys
  /\ num_pressed_keys <= MAX_PRESSED_KEYS
  /\ \A i, j \in 1..num_pressed_keys : pressed_keys[i] = pressed_keys[j] => i = j

\* A full array is reached and a press of a further, absent key is handled.
C1_Witness ==
  /\ num_pressed_keys = MAX_PRESSED_KEYS
  /\ event.key_state = "pressed"
  /\ entry_len = MAX_PRESSED_KEYS
  /\ ~entry_held

C3_EmitOnlyOnNonModifierPress ==
  chord_out # <<>> =>
    /\ event.key_state = "pressed"
    /\ ~is_modifier_keysym(EventKeysym)

\* A modifier is pressed while exactly one non-modifier is held, and nothing
\* is emitted.
C3_Witness ==
  /\ event.key_state = "pressed"
  /\ is_modifier_keysym(EventKeysym)
  /\ ~entry_held
  /\ NonModifierCount(pressed_keys) = 1
  /\ num_pressed_keys >= 3
  /\ chord_out = <<>>


\* C4: rendering does not depend on the order of the snapshot: for a set of
\* held keys with exactly one non-modifier, the string rendered (and emitted)
\* for the array order reached equals the string rendered for the same keys
\* in ascending keycode order, in reverse order and with any two neighbours
\* exchanged, so every insertion order of the set gives the same string.
C4_PermutationInvariant ==
  NonModifierCount(pressed_keys) = 1 =>
    /\ send_chord_event(Ascending(Range(pressed_keys)))
          = send_chord_event(pressed_keys)
    /\ send_chord_event(Reversed(pressed_keys)) = send_chord_event(pressed_keys)
    /\ \A i \in 1..(num_pressed_keys - 1) :
          send_chord_event(SwapAt(pressed_keys, i)) = send_chord_event(pressed_keys)
    /\ rendered => chord_out = send_chord_event(Ascending(Range(pressed_keys)))

\* A chord is emitted for an array whose modifiers are not in name order and
\* whose non-modifier key is not the last entry.
C4_Witness ==
  /\ rendered
  /\ Len(chord_out) = 1
  /\ ModifierCount(pressed_keys) >= 3
  /\ IsModifierKey(pressed_keys[num_pressed_keys])
  /\ \E i, j \in 1..num_pressed_keys :
        /\ i < j
        /\ IsModifierKey(pressed_keys[i])
        /\ IsModifierKey(pressed_keys[j])
        /\ ~LexLeq(DisplayName(pressed_keys[i]), DisplayName(pressed_keys[j]))

\* C5: every emitted line is the display names of all modifier keys of the
\* snapshot in byte-lexicographic order, then the display name of the single
\* non-modifier key, with exactly one space between consecutive names, no
\* leading or trailing space, and one newline at the end.
C5_CanonicalLine ==
  \A n \in 1..Len(chord_out) :
    LET line   == chord_out[n]
        body   == SubSeq(line, 1, Len(line) - 1)
        tokens == SplitOn(body, SPACE)
        mods   == SubSeq(tokens, 1, Len(tokens) - 1)
    IN /\ Len(line) >= 1
       /\ line[Len(line)] = NEWLINE
       /\ \A i \in 1..Len(body) : body[i] # NEWLINE
       /\ \A t \in 1..Len(tokens) : tokens[t] # <<>>
       /\ Len(tokens) = num_pressed_keys
       /\ \A t \in 1..(Len(mods) - 1) : LexLeq(mods[t], mods[t + 1])
       /\ \A t \in 1..Len(mods) :
             \E i \in 1..num_pressed_keys :
                IsModifierKey(pressed_keys[i]) /\ mods[t] = DisplayName(pressed_keys[i])
       /\ \A i \in 1..num_pressed_keys :
             IsModifierKey(pressed_keys[i]) =>
               Occurrences(mods, DisplayName(pressed_keys[i]))
                 = Cardinality({j \in 1..num_pressed_keys :
                                  /\ IsModifierKey(pressed_keys[j])
                                  /\ DisplayName(pressed_keys[j])
                                       = DisplayName(pressed_keys[i])})
       /\ \E i \in 1..num_pressed_keys :
             /\ ~IsModifierKey(pressed_keys[i])
             /\ tokens[Len(tokens)] = DisplayName(pressed_keys[i])

\* A line is emitted for a snapshot with at least four modifiers, two of
\* them carrying the same display name, held in an order that is not the
\* name order.
C5_Witness ==
  /\ Len(chord_out) = 1
  /\ ModifierCount(pressed_keys) >= 4
  /\ \E i, j \in 1..num_pressed_keys :
        /\ i < j
        /\ IsModifierKey(pressed_keys[i])
        /\ DisplayName(pressed_keys[i]) = DisplayName(pressed_keys[j])
  /\ \E i \in 1..(num_pressed_keys - 1) :
        /\ IsModifierKey(pressed_keys[i + 1])
        /\ ~LexLeq(DisplayName(pressed_keys[i]), DisplayName(pressed_keys[i + 1]))

\* C6: in every emitted chord the single non-modifier name is the display
\* name of the trigger key, the key whose press event caused the emission,
\* also when the array is full at the time of the press.
C6_EmittedKeyIsTrigger ==
  \A n \in 1..Len(chord_out) :
    LET tokens == LineTokens(chord_out[n])
    IN tokens[Len(tokens)] = DisplayName(event.code + XKB_OFFSET)

\* C7: a press of a key that is absent from an array already holding
\* MAX_PRESSED_KEYS keys is dropped: the array is unchanged in membership and
\* order, the capacity warning is printed, the key is not tracked, a line
\* rendered for the event names only the keys that were tracked, and the
\* handler stays able to take the next event.
C7_DroppedAtCapacity ==
  /\ [][(/\ event'.key_state = "pressed"
          /\ num_pressed_keys = MAX_PRESSED_KEYS
          /\ ~Held(pressed_keys, event'.code))
        => /\ pressed_keys' = pressed_keys
           /\ warned'
           /\ ~Held(pressed_keys', event'.code)
           /\ \A n \in 1..Len(chord_out') :
                 /\ Len(LineTokens(chord_out'[n])) = MAX_PRESSED_KEYS
                 /\ \A t \in 1..MAX_PRESSED_KEYS :
                       \E i \in 1..MAX_PRESSED_KEYS :
                          LineTokens(chord_out'[n])[t] = DisplayName(pressed_keys[i])]_vars
  /\ []((event.key_state = "pressed" /\ entry_len = MAX_PRESSED_KEYS /\ ~entry_held)
          => ENABLED KeyEvent)

\* A press is dropped at capacity and the sixteen tracked keys are rendered.
C7_Witness ==
  /\ event.key_state = "pressed"
  /\ entry_len = MAX_PRESSED_KEYS
  /\ ~entry_held
  /\ warned
  /\ Len(chord_out) = 1

\* C8: the capacity warning is printed only for a new press, a press of a key
\* absent from a full array; a press of a key already in the array never
\* prints it, also when the array holds MAX_PRESSED_KEYS keys.
C8_WarnOnlyOnNewPress ==
  warned =>
    /\ event.key_state = "pressed"
    /\ entry_len = MAX_PRESSED_KEYS
    /\ ~entry_held

\* C9: a press event for a key that is already in the array leaves the array
\* unchanged, in membership and in order.
C9_PressIdempotent ==
  [][(event'.key_state = "pressed" /\ Held(pressed_keys, event'.code))
       => pressed_keys' = pressed_keys]_vars

\* A press event arrives for a held key that is not the last entry of an
\* array that is not full.
C9_Witness ==
  /\ event.key_state = "pressed"
  /\ entry_held
  /\ entry_len = num_pressed_keys
  /\ 3 <= num_pressed_keys
  /\ num_pressed_keys < MAX_PRESSED_KEYS
  /\ pressed_keys[num_pressed_keys] # event.code + XKB_OFFSET

\* C10: every press event of a non-modifier key invokes send_chord_event,
\* whether or not the key was already in the array, and the chord is emitted
\* whenever the snapshot holds exactly one non-modifier key.
C10_RenderOnEveryNonModifierPress ==
  (event.key_state = "pressed" /\ ~is_modifier_keysym(EventKeysym)) =>
    /\ rendered
    /\ NonModifierCount(pressed_keys) = 1 => Len(chord_out) = 1

\* A repeated press event of a held non-modifier key emits the chord again.
C10_Witness ==
  /\ event.key_state = "pressed"
  /\ ~is_modifier_keysym(EventKeysym)
  /\ entry_held
  /\ ModifierCount(pressed_keys) >= 1
  /\ Len(chord_out) = 1

\* C11 (as stated): a press event for a key that is already held is a repeat:
\* no re-render happens and no chord string is emitted for that event.
C11_NoRenderOnRepeat ==
  (event.key_state = "pressed" /\ entry_held) =>
    /\ ~rendered
    /\ chord_out = <<>>

\* C11 (amended): a press event for a key that is already held leaves the
\* array unchanged, but it is rendered like any other press: send_chord_event
\* is called again exactly if the key is a non-modifier, and the chord is
\* emitted again exactly if, in addition, the snapshot holds one non-modifier.
C11_RepeatRendersNonModifier ==
  [][(event'.key_state = "pressed" /\ Held(pressed_keys, event'.code))
       => /\ pressed_keys' = pressed_keys
          /\ rendered' <=>
                ~is_modifier_keysym(xkb_state_key_get_one_sym(event'.code + XKB_OFFSET))
          /\ (Len(chord_out') = 1) <=>
                (rendered' /\ NonModifierCount(pressed_keys) = 1)
          /\ Len(chord_out') <= 1]_vars

\* A repeated press of a held non-modifier key that is not the last entry
\* emits a chord with at least two modifiers.
C11_Witness ==
  /\ event.key_state = "pressed"
  /\ entry_held
  /\ rendered
  /\ Len(chord_out) = 1
  /\ ModifierCount(pressed_keys) >= 2
  /\ pressed_keys[num_pressed_keys] # event.code + XKB_OFFSET

\* C12: a release of a key that is in the array deletes exactly that entry:
\* the size decreases by one, the key is gone, every other key stays and the
\* remaining keys keep their relative order (each remaining key and its
\* successor stood in that order before).
C12_RemoveDeletesOneEntry ==
  [][(event'.key_state = "released" /\ Held(pressed_keys, event'.code))
       => /\ Len(pressed_keys') = Len(pressed_keys) - 1
          /\ ~Held(pressed_keys', event'.code)
          /\ Range(pressed_keys') = Range(pressed_keys) \ {event'.code + XKB_OFFSET}
          /\ \A i \in 1..(Len(pressed_keys') - 1) :
                \E m \in 1..Len(pressed_keys) :
                   /\ pressed_keys[m] = pressed_keys'[i]
                   /\ \E n \in (m + 1)..Len(pressed_keys) :
                         pressed_keys[n] = pressed_keys'[i + 1]]_vars

\* A filler key is released from the middle of the array: at least two keys
\* remain and the last entry is a free key, pressed after the released one.
C12_Witness ==
  /\ event.key_state = "released"
  /\ entry_held
  /\ event.code \in FillerCodes
  /\ num_pressed_keys = entry_len - 1
  /\ num_pressed_keys >= 3
  /\ pressed_keys[num_pressed_keys] - XKB_OFFSET \in FreeCodes

\* C13: a release event for a key that is not in the array is a no-op: the
\* array is unchanged in membership and order, nothing is emitted and no
\* warning or error is reported.
C13_ReleaseOfAbsentKeyIsNoOp ==
  [][(event'.key_state = "released" /\ ~Held(pressed_keys, event'.code))
       => /\ pressed_keys' = pressed_keys
          /\ chord_out' = <<>>
          /\ ~rendered'
          /\ ~warned'
          /\ ~write_failed']_vars

\* A key that is not tracked is released while the array is full.
C13_Witness ==
  /\ event.key_state = "released"
  /\ ~entry_held
  /\ entry_len = MAX_PRESSED_KEYS
  /\ num_pressed_keys = MAX_PRESSED_KEYS

\* The sequence of held keys after an event, given the sequence before it:
\* a press of a key without an unreleased press adds it at the end, a release
\* takes the key out, anything else changes nothing.
HeldAfter(held, keycode, key_state) ==
  IF key_state = "pressed"
  THEN IF keycode \in Range(held) THEN held ELSE Append(held, keycode)
  ELSE SelectSeq(held, LAMBDA k : k # keycode)

\* C14: as long as no press is dropped for capacity, the array is the
\* sequence of keys with a press not yet followed by a release, ordered by
\* that press: it is empty at the start and every event that is not a dropped
\* press changes it exactly as that sequence changes.
C14_ArrayIsHeldSequence ==
  [][~(/\ event'.key_state = "pressed"
       /\ ~Held(pressed_keys, event'.code)
       /\ num_pressed_keys >= MAX_PRESSED_KEYS)
       => pressed_keys'
            = HeldAfter(pressed_keys, event'.code + XKB_OFFSET, event'.key_state)]_vars

\* A new key is appended to an array whose order is insertion order and not
\* keycode order.
C14_Witness ==
  /\ event.key_state = "pressed"
  /\ ~entry_held
  /\ num_pressed_keys = entry_len + 1
  /\ num_pressed_keys >= 3
  /\ pressed_keys[num_pressed_keys] = event.code + XKB_OFFSET
  /\ pressed_keys[1] > pressed_keys[2]
  /\ pressed_keys[2] > pressed_keys[3]

\* The bytes of "Control_L Shift_L a\n".
Line_Control_L_Shift_L_a ==
  <<67,111,110,116,114,111,108,95,76, 32, 83,104,105,102,116,95,76, 32, 97, 10>>

\* The bytes of "Control_L Shift_R a\n".
Line_Control_L_Shift_R_a ==
  <<67,111,110,116,114,111,108,95,76, 32, 83,104,105,102,116,95,82, 32, 97, 10>>

\* The keycodes of Shift_L, Control_L, Shift_R and a under the keymap.
KC_Shift_L == 1 + XKB_OFFSET

KC_Control_L == 15 + XKB_OFFSET

KC_Shift_R == 16 + XKB_OFFSET

KC_a == 17 + XKB_OFFSET

\* The handler has just handled the first press of a.
FirstPressOf_a ==
  /\ event = [code |-> 17, key_state |-> "pressed"]
  /\ ~entry_held

\* C16 (as stated): from the empty set, press Shift_R, press Control_L, press a
\* emits "Control_L Shift_L a".
C16_ShiftRRendersAsShiftL ==
  (pressed_keys = <<KC_Shift_R, KC_Control_L, KC_a>> /\ FirstPressOf_a)
    => chord_out = <<Line_Control_L_Shift_L_a>>

\* C16 (amended): press Shift_R, press Control_L, press a emits
\* "Control_L Shift_R a", the same string as the opposite modifier order
\* press Control_L, press Shift_R, press a; "Control_L Shift_L a" is what
\* press Shift_L, press Control_L, press a emits.
C16_ShiftRScenario ==
  /\ (pressed_keys = <<KC_Shift_R, KC_Control_L, KC_a>> /\ FirstPressOf_a)
       => chord_out = <<Line_Control_L_Shift_R_a>>
  /\ (pressed_keys = <<KC_Control_L, KC_Shift_R, KC_a>> /\ FirstPressOf_a)
       => chord_out = <<Line_Control_L_Shift_R_a>>
  /\ (pressed_keys = <<KC_Shift_L, KC_Control_L, KC_a>> /\ FirstPressOf_a)
       => chord_out = <<Line_Control_L_Shift_L_a>>

\* Shift_R, Control_L and a have been pressed in this order and the chord
\* has been emitted.
C16_Witness ==
  /\ pressed_keys = <<KC_Shift_R, KC_Control_L, KC_a>>
  /\ FirstPressOf_a
  /\ Len(chord_out) = 1

\* The bytes of "NoSymbol", the name of a keycode the keymap cannot resolve.
Name_NoSymbol == <<78,111,83,121,109,98,111,108>>

\* C20: a press of a key whose keycode the resolver cannot resolve is handled
\* like any other: the handler stays able to take the next event, the key is
\* tracked unless the array is full, it is classified non-modifier, so its
\* press calls send_chord_event and it counts toward the one-non-modifier
\* rule, and an emitted chord ends with the resolver's name for it.
C20_UnresolvedKeyIsNonModifier ==
  (event.key_state = "pressed" /\ EventKeysym = "NoSymbol") =>
    /\ ENABLED KeyEvent
    /\ entry_len < MAX_PRESSED_KEYS => Held(pressed_keys, event.code)
    /\ rendered
    /\ (Len(chord_out) = 1) <=>
          (Cardinality({i \in 1..num_pressed_keys :
                          xkb_state_key_get_one_sym(pressed_keys[i])
                            \in {"a", "b", "NoSymbol"}}) = 1)
    /\ (Len(chord_out) = 1 /\ Held(pressed_keys, event.code)) =>
          LineTokens(chord_out[1])[num_pressed_keys] = Name_NoSymbol

\* An unresolved key is pressed while two or more modifiers are held and the
\* chord is emitted.
C20_Witness ==
  /\ event.key_state = "pressed"
  /\ EventKeysym = "NoSymbol"
  /\ ~entry_held
  /\ Held(pressed_keys, event.code)
  /\ ModifierCount(pressed_keys) >= 2
  /\ Len(chord_out) = 1

\* The bytes of "a\n".
Line_a == <<97, 10>>

C17_ShutdownNeedsNoInput ==
  /\ (keep_running = 0 /\ pc # "done") => ENABLED ReaderStep
  /\ pc = "done" => taken = NoEvent

\* C18: key_reader returns 1 when it stops for a failure (udev or libinput
\* context creation, poll failing with an errno other than EINTR, POLLERR,
\* POLLHUP or POLLNVAL on the descriptor) and 0 only when it was stopped by
\* the shutdown signal.
C18_FailureReturnsOne ==
  pc = "done" =>
    /\ exit_cause \in {"udev_failed", "libinput_failed", "poll_failed", "fd_error"}
         => ret = 1
    /\ ret = 0 => exit_cause = "stopped"

\* C19: a failed write of a chord is reported and not retried (one line was
\* handed to the FIFO), the array is what the press gives when the write
\* succeeds, and key_reader neither returns nor stops: it is back at the
\* event queue and takes the next event.
C19_WriteFailureDoesNotHalt ==
  /\ [][(taken # NoEvent /\ taken' = NoEvent /\ write_failed')
        => /\ Len(chord_out') = 1
           /\ pressed_keys'
                = HeldAfter(pressed_keys, event'.code + XKB_OFFSET, "pressed")
           /\ pc' = "events"
           /\ keep_running' = keep_running
           /\ ret' = -1]_vars
  /\ [](pc = "events" => ENABLED GetEvent)

\* After a failed write the next keyboard event has been taken from the
\* queue for handling.
C19_Witness ==
  /\ write_failed
  /\ pc = "handling"
  /\ taken.key_state = "pressed"
  /\ num_pressed_keys >= 2

-----------------------------------------------------------------------------
\* The fifteen identities named as modifiers.
ModifierIdentities ==
  {"Shift_L", "Shift_R", "Control_L", "Control_R", "Alt_L", "Alt_R",
   "Super_L", "Super_R", "Meta_L", "Meta_R", "Hyper_L", "Hyper_R",
   "Caps_Lock", "Num_Lock", "Scroll_Lock"}

\* Key identities to classify: those of the keymap, the unknown one, and
\* three that xkbcommon knows as shift-like keys but the switch does not name.
KeysymIdentities ==
  Range(Keymap) \cup {"NoSymbol", "Shift_Lock", "Mode_switch", "ISO_Level3_Shift"}

\* C21: is_modifier_keysym gives an answer for every identity, true exactly
\* for the fifteen modifier identities and false for every other one, the
\* unknown one included; the handler and send_chord_event classify with it:
\* a press is rendered exactly when its key is not one of the fifteen, and an
\* emitted line carries as many modifier names as held keys are of the fifteen.
C21_ExactlyFifteenModifiers ==
  /\ Cardinality(ModifierIdentities) = 15
  /\ \A keysym \in KeysymIdentities :
        /\ is_modifier_keysym(keysym) \in BOOLEAN
        /\ is_modifier_keysym(keysym) <=> keysym \in ModifierIdentities
  /\ event.key_state = "pressed" =>
        (rendered <=> EventKeysym \notin ModifierIdentities)
  /\ \A n \in 1..Len(chord_out) :
        Len(LineTokens(chord_out[n])) - 1
          = Cardinality({i \in 1..num_pressed_keys :
                           xkb_state_key_get_one_sym(pressed_keys[i])
                             \in ModifierIdentities})

\* Keys of all fifteen modifier identities are held, a non-modifier key is
\* pressed and the emitted line names the fifteen before it.
C21_Witness ==
  /\ event.key_state = "pressed"
  /\ rendered
  /\ Len(chord_out) = 1
  /\ {xkb_state_key_get_one_sym(pressed_keys[i]) : i \in 1..num_pressed_keys}
       \cap ModifierIdentities = ModifierIdentities
  /\ {LineTokens(chord_out[1])[t] : t \in 1..15}
       = {xkb_keysym_get_name(keysym) : keysym \in ModifierIdentities}

-----------------------------------------------------------------------------
\* The length of the longest name of a modifier identity.
LongestModifierName ==
  CHOOSE len \in 0..(NAME_BUF - 1) :
    /\ \E keysym \in ModifierIdentities : Len(xkb_keysym_get_name(keysym)) = len
    /\ \A keysym \in ModifierIdentities : Len(xkb_keysym_get_name(keysym)) <= len

\* The bytes the modifier keys of the array take in the chord string: each
\* name and one space.
RECURSIVE ModifierBytes(_)
ModifierBytes(keys) ==
  IF keys = <<>> THEN 0
  ELSE (IF IsModifierKey(Head(keys)) THEN Len(DisplayName(Head(keys))) + 1 ELSE 0)
         + ModifierBytes(Tail(keys))

\* C22: the chord string send_chord_event builds fits chord_str with its
\* terminator.  It is each held modifier's name and one space, then the name
\* of the one non-modifier key; at most MAX_PRESSED_KEYS - 1 modifiers are
\* held with that key, a modifier name is no longer than the longest of the
\* fifteen, any name is at most NAME_BUF - 1 bytes, and the most these allow
\* is below CHORD_BUF.
C22_ChordFitsBuffer ==
  /\ (MAX_PRESSED_KEYS - 1) * (LongestModifierName + 1) + (NAME_BUF - 1)
       <= CHORD_BUF - 1
  /\ \A n \in 1..Len(chord_out) :
        LET str == SubSeq(chord_out[n], 1, Len(chord_out[n]) - 1)
        IN /\ num_pressed_keys <= MAX_PRESSED_KEYS
           /\ ModifierCount(pressed_keys) <= MAX_PRESSED_KEYS - 1
           /\ \A i \in 1..num_pressed_keys :
                 /\ Len(DisplayName(pressed_keys[i])) <= NAME_BUF - 1
                 /\ IsModifierKey(pressed_keys[i]) =>
                      Len(DisplayName(pressed_keys[i])) <= LongestModifierName
           /\ \E i \in 1..num_pressed_keys :
                 /\ ~IsModifierKey(pressed_keys[i])
                 /\ Len(str) = ModifierBytes(pressed_keys)
                                + Len(DisplayName(pressed_keys[i]))
           /\ Len(str) <= CHORD_BUF - 1

\* Fifteen modifiers are held, the unresolved key is pressed and the chord
\* is emitted: the longest string this keyboard gives.
C22_Witness ==
  /\ Len(chord_out) = 1
  /\ ModifierCount(pressed_keys) = MAX_PRESSED_KEYS - 1
  /\ event.key_state = "pressed"
  /\ EventKeysym = "NoSymbol"
  /\ Len(chord_out[1]) - 1
       = ModifierBytes(pressed_keys) + Len(Name_NoSymbol)
  /\ Len(chord_out[1]) - 1 > 8 * MAX_PRESSED_KEYS

-----------------------------------------------------------------------------
\* C23: once every press event of every key has been followed by a release
\* event of that key (no key has a press as its last event), the array is
\* empty, also when presses were dropped for capacity or repeated while
\* held; in general a key in the array has a press as its last event.
C23_EmptyWhenAllReleased ==
  /\ down = {} => pressed_keys = <<>>
  /\ \A i \in 1..num_pressed_keys : pressed_keys[i] - XKB_OFFSET \in down

\* A press has been dropped at the full array, and the last key with an
\* unreleased press, held in the array, has just been released.
C23_Witness ==
  /\ dropped
  /\ down = {}
  /\ pressed_keys = <<>>
  /\ event.key_state = "released"
  /\ entry_held
====
